---- MODULE Spec2Model ----
(***************************************************************************)
(* Model of rc-report.py: a weekly job that logs in to a MediaWiki wiki,   *)
(* fetches the recent-changes feed of the previous week page by page,      *)
(* groups the edits into an HTML report and mails it through Mailgun.      *)
(***************************************************************************)
EXTENDS Integers, Sequences, FiniteSets, TLC

VARIABLES
    env,            \* os.getenv: for each key, TRUE iff set to a non-empty value
    pc,             \* position of main
    exit_code,      \* process exit status, meaningful when pc = "exited"
    trace,          \* the stage functions main has called, in call order
    requests,       \* the network requests issued, in order
    answers,        \* what came back for each request, in the same order
    today, last_saturday, last_sunday, start_date, end_date,
    params,         \* get_recent_changes: the query parameters
    acc,            \* get_recent_changes: its local list `changes`
    pages,          \* the server's answers to the recent-changes queries
    changes,        \* main: `changes`, once get_recent_changes has returned
    output_lines, current_date, last_user, last_page, group, idx,
    flushed,        \* the groups passed to format_group, in call order
    html_output,    \* main: `html_output`, once format_changes has returned
    subject,        \* main: `subject`
    response        \* main: `response`, the status of the mail POST

vars == <<env, pc, exit_code, trace, requests, answers, today, last_saturday,
          last_sunday, start_date, end_date, params, acc, pages, changes,
          output_lines, current_date, last_user, last_page, group, idx,
          flushed, html_output, subject, response>>

----------------------------------------------------------------------------
(* Bounds *)
MaxUsers == 2         \* user names are 1..MaxUsers
MaxTitles == 2        \* page titles are 1..MaxTitles
MaxDate == 2          \* edits fall on MaxDate consecutive calendar dates
MaxMinute == 1        \* times of day HH:MM are 0..MaxMinute
MaxLen == 2           \* longest list handed to format_changes on its own
MaxPages == 2         \* most pages the server makes of one feed
MaxPageLen == 1       \* most records on one page
MaxToken == 1         \* continuation tokens are 1..MaxToken
MaxTodayOffset == 6   \* the job runs on FirstDay .. FirstDay + MaxTodayOffset
FirstDay == 738942    \* proleptic Gregorian ordinal of 2024-02-26, a Monday

None == 0             \* Python's None: differs from every user, title, date, token

Keys == {"MW_USERNAME", "MW_PASSWORD", "RECIPIENT_EMAIL", "BASE_DOMAIN",
         "MAILGUN_API_KEY", "MAILGUN_DOMAIN", "SENDER_EMAIL"}

Users == 1..MaxUsers
Titles == 1..MaxTitles
Dates == (FirstDay - 7) .. (FirstDay - 7 + MaxDate - 1)
Tokens == 1..MaxToken

\* A timestamp 'YYYY-MM-DDTHH:MM:SSZ' of a whole minute: the date and the
\* minute of the day
Timestamp == [date : Dates, hm : 0..MaxMinute]

\* One entry of data['query']['recentchanges']
EditRecord == [user : Users, title : Titles, timestamp : Timestamp]

\* The records the paginated feed is made of: edits of two users to one page
FeedRecord == {[user |-> u, title |-> 1,
                timestamp |-> [date |-> FirstDay - 7, hm |-> 0]] : u \in {1, 2}}

BoundedSeq(S, n) == UNION {[1..k -> S] : k \in 0..n}

Last(s) == s[Len(s)]

----------------------------------------------------------------------------
(* Dates *)

\* date.weekday(): Monday is 0, Sunday is 6; ordinal 1 (0001-01-01) is a Monday
Weekday(ordinal) == (ordinal + 6) % 7

\* date.fromordinal: the (year, month, day) of a proleptic Gregorian ordinal
Ord2ymd(ordinal) ==
    LET DaysInMonth == <<31, 28, 31, 30, 31, 30, 31, 31, 30, 31, 30, 31>>
        DaysBeforeMonth == <<0, 31, 59, 90, 120, 151, 181, 212, 243, 273, 304, 334>>
        n0 == ordinal - 1
        n400 == n0 \div 146097
        r400 == n0 % 146097
        n100 == r400 \div 36524
        r100 == r400 % 36524
        n4 == r100 \div 1461
        r4 == r100 % 1461
        n1 == r4 \div 365
        n == r4 % 365
        year == n400 * 400 + 1 + n100 * 100 + n4 * 4 + n1
        leapyear == n1 = 3 /\ (n4 # 24 \/ n100 = 3)
        month0 == (n + 50) \div 32
        preceding0 == DaysBeforeMonth[month0] + (IF month0 > 2 /\ leapyear THEN 1 ELSE 0)
        month == IF preceding0 > n THEN month0 - 1 ELSE month0
        preceding == IF preceding0 > n
                     THEN preceding0 - (DaysInMonth[month]
                                        + (IF month = 2 /\ leapyear THEN 1 ELSE 0))
                     ELSE preceding0
    IN  IF n1 = 4 \/ n100 = 4
        THEN [year |-> year - 1, month |-> 12, day |-> 31]
        ELSE [year |-> year, month |-> month, day |-> n - preceding + 1]

\* strftime('%b %d') of a datetime: month and day of month; year and time are dropped
StrfMonthDay(dt) == [b |-> Ord2ymd(dt.date).month, d |-> Ord2ymd(dt.date).day]

\* strftime('%H:%M') of a timestamp: the date is dropped
StrfHM(ts) == ts.hm

\* strftime('%Y-%m-%d') of a timestamp
StrfDate(ts) == ts.date

NoDateTime == [date |-> None, time |-> "min"]

----------------------------------------------------------------------------
(* Sorting *)

\* Order of the timestamp strings: fixed-width fields, compared left to right
TsLess(a, b) ==
    \/ a.date < b.date
    \/ a.date = b.date /\ a.hm < b.hm

\* insert rc behind every element whose key is not smaller than rc's
RECURSIVE InsertDesc(_, _)
InsertDesc(s, rc) ==
    IF s = <<>> THEN <<rc>>
    ELSE IF TsLess(Head(s).timestamp, rc.timestamp)
         THEN <<rc>> \o s
         ELSE <<Head(s)>> \o InsertDesc(Tail(s), rc)

RECURSIVE SortDescFrom(_, _)
SortDescFrom(done, rest) ==
    IF rest = <<>> THEN done
    ELSE SortDescFrom(InsertDesc(done, Head(rest)), Tail(rest))

RECURSIVE Reverse(_)
Reverse(s) == IF s = <<>> THEN <<>> ELSE Reverse(Tail(s)) \o <<Head(s)>>

\* a descending sort that reverses the ascending one: equal keys swap places
SortDescReversing(s) == SortDescFrom(<<>>, Reverse(s))

\* changes.sort(key=lambda x: x['timestamp'], reverse=True): stable, equal
\* keys keep their order also under reverse=True
SortDesc(s) == SortDescFrom(<<>>, s)

----------------------------------------------------------------------------
(* format_group and the body of format_changes' loop *)

\* the time range of a group header: '[last - first]' as times of day
TimeRangeFirstLast(grp) == <<StrfHM(grp[1].timestamp), StrfHM(Last(grp).timestamp)>>

TimeRange(grp) == <<StrfHM(Last(grp).timestamp), StrfHM(grp[1].timestamp)>>

\* format_group: the group header, then one list entry per edit of the group
FormatGroup(grp) ==
    <<[kind |-> "group", time_range |-> TimeRange(grp),
       page_title |-> grp[1].title, username |-> grp[1].user]>>
    \o <<[kind |-> "ul"]>>
    \o [i \in 1..Len(grp) |-> [kind |-> "li", time_str |-> StrfHM(grp[i].timestamp)]]
    \o <<[kind |-> "/ul"]>>

\* the flush: 'if group: output_lines.extend(format_group(group, base_url)); group = []'
Flush(st) ==
    IF st.group # <<>>
    THEN [st EXCEPT !.output_lines = @ \o FormatGroup(st.group),
                    !.flushed = Append(@, st.group),
                    !.group = <<>>]
    ELSE st

\* a date section that opens without closing the group of the previous date
NewDateSectionKeepGroup(st, rc) ==
    IF st.current_date # StrfDate(rc.timestamp)
    THEN [st EXCEPT !.current_date = StrfDate(rc.timestamp),
                    !.output_lines = Append(@, [kind |-> "h2",
                                                date |-> StrfDate(rc.timestamp),
                                                day_of_week |-> Weekday(rc.timestamp.date)])]
    ELSE st

\* 'if current_date != date_str': flush, emit the heading, forget the group key
NewDateSection(st, rc) ==
    IF st.current_date # StrfDate(rc.timestamp)
    THEN LET f == Flush([st EXCEPT !.current_date = StrfDate(rc.timestamp)])
         IN  [f EXCEPT !.output_lines = Append(@, [kind |-> "h2",
                                                   date |-> StrfDate(rc.timestamp),
                                                   day_of_week |-> Weekday(rc.timestamp.date)]),
                       !.last_user = None,
                       !.last_page = None]
    ELSE st

\* a grouping that looks at the user only
GroupEditByUser(st, rc) ==
    IF rc.user = st.last_user
    THEN [st EXCEPT !.group = Append(@, rc)]
    ELSE LET f == Flush(st)
         IN  [f EXCEPT !.group = Append(@, rc),
                       !.last_user = rc.user,
                       !.last_page = rc.title]

\* 'if (user == last_user and page_title == last_page)': extend the group,
\* else flush it and start a new one with rc
GroupEdit(st, rc) ==
    IF rc.user = st.last_user /\ rc.title = st.last_page
    THEN [st EXCEPT !.group = Append(@, rc)]
    ELSE LET f == Flush(st)
         IN  [f EXCEPT !.group = Append(@, rc),
                       !.last_user = rc.user,
                       !.last_page = rc.title]

\* one iteration of 'for idx, rc in enumerate(changes)'
LoopBody(st, rc) == GroupEdit(NewDateSection(st, rc), rc)

FormatState == [current_date |-> current_date, last_user |-> last_user,
                last_page |-> last_page, group |-> group,
                output_lines |-> output_lines, flushed |-> flushed]

SetFormatState(st) ==
    /\ current_date' = st.current_date
    /\ last_user' = st.last_user
    /\ last_page' = st.last_page
    /\ group' = st.group
    /\ output_lines' = st.output_lines
    /\ flushed' = st.flushed

----------------------------------------------------------------------------
(* The run *)

NoChanges == [assigned |-> FALSE, val |-> <<>>]
NoHtml == [assigned |-> FALSE, val |-> <<>>]
NoSubject == [assigned |-> FALSE, start_str |-> [b |-> 0, d |-> 0],
              end_str |-> [b |-> 0, d |-> 0]]

Request(kind, cont) == [kind |-> kind, cont |-> cont]

\* sys.exit(code), or an exception nothing catches (code 1)
Exit(code) == pc' = "exited" /\ exit_code' = code

windowVars == <<today, last_saturday, last_sunday, start_date, end_date>>
fetchVars == <<params, acc, pages, changes>>
formatVars == <<output_lines, current_date, last_user, last_page, group, idx,
                flushed, html_output>>
mailVars == <<subject, response>>

InitLater ==
    /\ exit_code = 0
    /\ output_lines = <<>> /\ current_date = None
    /\ last_user = None /\ last_page = None
    /\ group = <<>> /\ idx = 0 /\ flushed = <<>>
    /\ html_output = NoHtml
    /\ subject = NoSubject
    /\ response = None

Init ==
    /\ InitLater
    /\ today = None /\ last_saturday = None /\ last_sunday = None
    /\ start_date = NoDateTime /\ end_date = NoDateTime
    /\ env \in [Keys -> BOOLEAN]
    /\ pc = "start"
    /\ trace = <<>>
    /\ requests = <<>>
    /\ answers = <<>>
    /\ params = [rcstart |-> NoDateTime, rcend |-> NoDateTime, cont |-> None]
    /\ acc = <<>>
    /\ pages = <<>>
    /\ changes = NoChanges

\* main: the credentials and the recipient are read and checked
CheckCredentials ==
    /\ pc = "start"
    /\ IF ~env["MW_USERNAME"] \/ ~env["MW_PASSWORD"]
       THEN Exit(1)
       ELSE IF ~env["RECIPIENT_EMAIL"]
            THEN Exit(1)
            ELSE pc' = "get_login_token" /\ UNCHANGED exit_code
    /\ UNCHANGED <<env, trace, requests, answers, windowVars, fetchVars, formatVars, mailVars>>

\* get_login_token: one GET; a transport error or a missing field is fatal
GetLoginToken ==
    /\ pc = "get_login_token"
    /\ trace' = Append(trace, "token")
    /\ requests' = Append(requests, Request("token", None))
    /\ \E resp \in {"transport", "nofield", "ok"} :
         /\ answers' = Append(answers, resp)
         /\ IF resp = "ok"
            THEN pc' = "login" /\ UNCHANGED exit_code
            ELSE Exit(1)
    /\ UNCHANGED <<env, windowVars, fetchVars, formatVars, mailVars>>

\* login: one POST; anything but result "Success" is fatal
Login ==
    /\ pc = "login"
    /\ trace' = Append(trace, "login")
    /\ requests' = Append(requests, Request("login", None))
    /\ \E resp \in {"transport", "nofield", "Failed", "Success"} :
         /\ answers' = Append(answers, resp)
         /\ IF resp = "Success"
            THEN pc' = "window" /\ UNCHANGED exit_code
            ELSE Exit(1)
    /\ UNCHANGED <<env, windowVars, fetchVars, formatVars, mailVars>>

\* main, step 3: the window, from the current UTC date
ComputeWindow ==
    /\ pc = "window"
    /\ \E t \in FirstDay .. FirstDay + MaxTodayOffset :
         /\ today' = t
         /\ last_saturday' = t - (Weekday(t) + 2)
         /\ last_sunday' = (t - (Weekday(t) + 2)) - 6
         /\ start_date' = [date |-> (t - (Weekday(t) + 2)) - 6, time |-> "min"]
         /\ end_date' = [date |-> t - (Weekday(t) + 2), time |-> "max"]
    /\ pc' = "get_recent_changes"
    /\ UNCHANGED <<env, exit_code, trace, requests, answers, fetchVars, formatVars, mailVars>>

\* main, step 4: get_recent_changes(S, URL, end_date, start_date) up to its loop
FetchCall ==
    /\ pc = "get_recent_changes"
    /\ trace' = Append(trace, "fetch")
    /\ params' = [rcstart |-> end_date, rcend |-> start_date, cont |-> None]
    /\ acc' = <<>>
    /\ pc' = "fetch_page"
    /\ UNCHANGED <<env, exit_code, requests, answers, windowVars, pages, changes,
                   formatVars, mailVars>>

\* what the server can answer to one recent-changes query
PageResponse ==
    {[kind |-> k, recs |-> <<>>, cont |-> None] : k \in {"transport", "malformed"}}
    \cup [kind : {"ok"}, recs : BoundedSeq(FeedRecord, MaxPageLen),
          cont : {None} \cup Tokens]

\* a page step that repeats the query without the continuation it was given
FetchPageDropToken ==
    /\ pc = "fetch_page"
    /\ Len(pages) < MaxPages
    /\ \E resp \in PageResponse :
         /\ Len(pages) = MaxPages - 1 => resp.cont = None
         /\ requests' = Append(requests, Request("recentchanges", params.cont))
         /\ pages' = Append(pages, resp)
         /\ answers' = Append(answers, resp.kind)
         /\ IF resp.kind # "ok"
            THEN Exit(1) /\ UNCHANGED <<acc, params, changes>>
            ELSE /\ acc' = acc \o resp.recs
                 /\ UNCHANGED <<exit_code, params>>
                 /\ IF resp.cont # None
                    THEN UNCHANGED <<pc, changes>>
                    ELSE /\ changes' = [assigned |-> TRUE, val |-> acc \o resp.recs]
                         /\ pc' = "check_empty"
    /\ UNCHANGED <<env, trace, windowVars, formatVars, mailVars>>

\* get_recent_changes, one turn of 'while True': the query with the current
\* params, the page added to the list, the continuation merged into params;
\* the page without one returns the list to main
FetchPage ==
    /\ pc = "fetch_page"
    /\ Len(pages) < MaxPages
    /\ \E resp \in PageResponse :
         /\ Len(pages) = MaxPages - 1 => resp.cont = None
         /\ requests' = Append(requests, Request("recentchanges", params.cont))
         /\ pages' = Append(pages, resp)
         /\ answers' = Append(answers, resp.kind)
         /\ IF resp.kind # "ok"
            THEN Exit(1) /\ UNCHANGED <<acc, params, changes>>
            ELSE /\ acc' = acc \o resp.recs
                 /\ UNCHANGED exit_code
                 /\ IF resp.cont # None
                    THEN /\ params' = [params EXCEPT !.cont = resp.cont]
                         /\ UNCHANGED <<pc, changes>>
                    ELSE /\ changes' = [assigned |-> TRUE, val |-> acc \o resp.recs]
                         /\ pc' = "check_empty"
                         /\ UNCHANGED params
    /\ UNCHANGED <<env, trace, windowVars, formatVars, mailVars>>

\* an emptiness test that lets the empty list through
CheckEmptyProceed ==
    /\ pc = "check_empty"
    /\ pc' = "format_changes"
    /\ UNCHANGED <<env, exit_code, trace, requests, answers, windowVars, fetchVars,
                   formatVars, mailVars>>

\* main: 'if not changes: sys.exit(0)'
CheckEmpty ==
    /\ pc = "check_empty"
    /\ IF changes.val = <<>>
       THEN Exit(0)
       ELSE pc' = "format_changes" /\ UNCHANGED exit_code
    /\ UNCHANGED <<env, trace, requests, answers, windowVars, fetchVars, formatVars, mailVars>>

\* main, step 5: the title (BASE_DOMAIN.split fails on None, uncaught), then
\* format_changes(changes, BASE_URL, end_date, start_date, title) up to its
\* loop: the header from its start_date and end_date parameters, the sort
FormatCall ==
    /\ pc = "format_changes"
    /\ IF ~env["BASE_DOMAIN"]
       THEN /\ Exit(1)
            /\ UNCHANGED <<trace, changes, output_lines, current_date, last_user,
                           last_page, group, idx>>
       ELSE /\ trace' = Append(trace, "format")
            /\ output_lines' = <<[kind |-> "h1", start_str |-> StrfMonthDay(end_date),
                                  end_str |-> StrfMonthDay(start_date)],
                                 [kind |-> "p"]>>
            /\ changes' = [changes EXCEPT !.val = SortDesc(@)]
            /\ current_date' = None
            /\ last_user' = None
            /\ last_page' = None
            /\ group' = <<>>
            /\ idx' = 1
            /\ pc' = "format_loop"
            /\ UNCHANGED exit_code
    /\ UNCHANGED <<env, requests, answers, windowVars, params, acc, pages, flushed,
                   html_output, mailVars>>

\* format_changes: one iteration of the loop
FormatLoop ==
    /\ pc = "format_loop"
    /\ idx <= Len(changes.val)
    /\ SetFormatState(LoopBody(FormatState, changes.val[idx]))
    /\ idx' = idx + 1
    /\ UNCHANGED <<env, pc, exit_code, trace, requests, answers, windowVars, fetchVars,
                   html_output, mailVars>>

\* format_changes: the flush after the loop, the join, the return to main
FormatEnd ==
    /\ pc = "format_loop"
    /\ idx > Len(changes.val)
    /\ SetFormatState(Flush(FormatState))
    /\ html_output' = [assigned |-> TRUE, val |-> Flush(FormatState).output_lines]
    /\ pc' = "send_email"
    /\ UNCHANGED <<env, exit_code, trace, requests, answers, windowVars, fetchVars, idx,
                   mailVars>>

\* main, step 6: the subject from start_date and end_date, then send_email:
\* the Mailgun settings are checked, then one POST (its transport error is
\* caught nowhere)
SendEmail ==
    /\ pc = "send_email"
    /\ subject' = [assigned |-> TRUE, start_str |-> StrfMonthDay(start_date),
                   end_str |-> StrfMonthDay(end_date)]
    /\ trace' = Append(trace, "mail")
    /\ IF ~env["MAILGUN_API_KEY"] \/ ~env["MAILGUN_DOMAIN"] \/ ~env["SENDER_EMAIL"]
       THEN Exit(1) /\ UNCHANGED <<requests, answers, response>>
       ELSE /\ requests' = Append(requests, Request("mail", None))
            /\ \E resp \in {"transport", "200", "401"} :
                 /\ answers' = Append(answers, resp)
                 /\ IF resp = "transport"
                    THEN Exit(1) /\ UNCHANGED response
                    ELSE /\ response' = (IF resp = "200" THEN 200 ELSE 401)
                         /\ pc' = "check_status"
                         /\ UNCHANGED exit_code
    /\ UNCHANGED <<env, windowVars, fetchVars, formatVars>>

\* a status test that takes every answer of the provider for a success
CheckStatusAny ==
    /\ pc = "check_status"
    /\ Exit(0)
    /\ UNCHANGED <<env, trace, requests, answers, windowVars, fetchVars, formatVars, mailVars>>

\* main: 'if response.status_code == 200', else sys.exit(1); main returns
CheckStatus ==
    /\ pc = "check_status"
    /\ IF response = 200 THEN Exit(0) ELSE Exit(1)
    /\ UNCHANGED <<env, trace, requests, answers, windowVars, fetchVars, formatVars, mailVars>>

Next ==
    \/ CheckCredentials
    \/ GetLoginToken
    \/ Login
    \/ ComputeWindow
    \/ FetchCall
    \/ FetchPage
    \/ CheckEmpty
    \/ FormatCall
    \/ FormatLoop
    \/ FormatEnd
    \/ SendEmail
    \/ CheckStatus

Spec == Init /\ [][Next]_vars

----------------------------------------------------------------------------
(* format_changes on its own: main has fetched one page holding any list of *)
(* up to MaxLen records and is about to format it                           *)

InitFormat ==
    /\ InitLater
    /\ env = [k \in Keys |-> TRUE]
    /\ pc = "check_empty"
    /\ trace = <<"token", "login", "fetch">>
    /\ requests = <<Request("token", None), Request("login", None),
                    Request("recentchanges", None)>>
    /\ answers = <<"ok", "Success", "ok">>
    /\ today = FirstDay
    /\ last_saturday = FirstDay - (Weekday(FirstDay) + 2)
    /\ last_sunday = (FirstDay - (Weekday(FirstDay) + 2)) - 6
    /\ start_date = [date |-> last_sunday, time |-> "min"]
    /\ end_date = [date |-> last_saturday, time |-> "max"]
    /\ params = [rcstart |-> end_date, rcend |-> start_date, cont |-> None]
    /\ \E input \in BoundedSeq(EditRecord, MaxLen) :
         /\ acc = input
         /\ pages = <<[kind |-> "ok", recs |-> input, cont |-> None]>>
         /\ changes = [assigned |-> TRUE, val |-> input]

NextFormat ==
    \/ CheckEmpty
    \/ FormatCall
    \/ FormatLoop
    \/ FormatEnd

SpecFormat == InitFormat /\ [][NextFormat]_vars

----------------------------------------------------------------------------
(* Properties *)

Exited(code) == pc = "exited" /\ exit_code = code

RECURSIVE ConcatGroups(_)
ConcatGroups(gs) == IF gs = <<>> THEN <<>> ELSE Head(gs) \o ConcatGroups(Tail(gs))

RECURSIVE ConcatPages(_)
ConcatPages(ps) == IF ps = <<>> THEN <<>> ELSE Head(ps).recs \o ConcatPages(Tail(ps))

\* the list in fetch order, as get_recent_changes built it
Fetched == ConcatPages(pages)

WithTimestamp(s, t) == LET Is(rc) == rc.timestamp = t IN SelectSeq(s, Is)

\* out is in descending timestamp order and, for every timestamp, holds the
\* records of that timestamp that in holds, in the order in holds them
IsStableDescSortOf(out, in) ==
    /\ Len(out) = Len(in)
    /\ \A i \in 1..(Len(out) - 1) : ~TsLess(out[i].timestamp, out[i + 1].timestamp)
    /\ \A t \in Timestamp : WithTimestamp(out, t) = WithTimestamp(in, t)

SameKey(a, b) == a.user = b.user /\ a.title = b.title
SameDate(a, b) == StrfDate(a.timestamp) = StrfDate(b.timestamp)

\* C1: when format_changes returns, the groups it passed to format_group,
\* concatenated in flush order, are the stable descending-by-timestamp sort of
\* the fetched list: every record in exactly one group, ties in fetch order
C1_GroupsAreStableSort ==
    html_output.assigned => IsStableDescSortOf(ConcatGroups(flushed), Fetched)

C1_Witness ==
    /\ html_output.assigned
    /\ Len(flushed) >= 2
    /\ \E i, j \in 1..Len(Fetched) :
         /\ i < j
         /\ Fetched[i].timestamp = Fetched[j].timestamp
         /\ Fetched[i] # Fetched[j]

\* C2: every group passed to format_group is non-empty and its records share
\* one user, one page title and one calendar date
C2_GroupsHomogeneous ==
    \A k \in 1..Len(flushed) :
        /\ flushed[k] # <<>>
        /\ \A i \in 1..Len(flushed[k]) :
             /\ SameKey(flushed[k][i], flushed[k][1])
             /\ SameDate(flushed[k][i], flushed[k][1])

C2_Witness ==
    /\ html_output.assigned
    /\ Len(flushed) >= 2
    /\ \E i \in 1..(Len(changes.val) - 1) :
         /\ SameKey(changes.val[i], changes.val[i + 1])
         /\ ~SameDate(changes.val[i], changes.val[i + 1])

GroupHeaders == LET IsHeader(l) == l.kind = "group" IN SelectSeq(output_lines, IsHeader)

\* C8: the k-th group header shows the time of day of the last member of the
\* k-th group, then that of its first member, and the first value shown is
\* not later than the second
C8_TimeRangeEarliestLatest ==
    /\ Len(GroupHeaders) = Len(flushed)
    /\ \A k \in 1..Len(flushed) :
         /\ GroupHeaders[k].time_range[1] = StrfHM(Last(flushed[k]).timestamp)
         /\ GroupHeaders[k].time_range[2] = StrfHM(flushed[k][1].timestamp)
         /\ GroupHeaders[k].time_range[1] <= GroupHeaders[k].time_range[2]

C8_Witness ==
    \E k \in 1..Len(flushed) :
        /\ Len(flushed[k]) >= 2
        /\ GroupHeaders[k].time_range[1] < GroupHeaders[k].time_range[2]

\* the loop iteration extends the open group with rc and closes nothing
ExtendsOpenGroup(rc) ==
    /\ group # <<>>
    /\ group' = Append(group, rc)
    /\ flushed' = flushed

\* rc has the key of the open group and falls into its date section
BelongsToOpenGroup(rc) ==
    /\ group # <<>>
    /\ SameKey(rc, group[1])
    /\ SameDate(rc, group[1])

\* no two neighbouring groups of one date section have the same user and title
NeighboursDiffer ==
    LET gs == IF group = <<>> THEN flushed ELSE Append(flushed, group)
    IN  \A k \in 1..(Len(gs) - 1) :
            SameDate(gs[k][1], gs[k + 1][1]) => ~SameKey(gs[k][1], gs[k + 1][1])

\* C9: a loop iteration appends its record to the open group iff the record
\* has the group's user and title and no date section opened in between;
\* so neighbouring groups of one date section differ in user or title
C9_GroupsMaximal ==
    /\ [][(pc = "format_loop" /\ idx' = idx + 1)
            => (ExtendsOpenGroup(changes.val[idx]) <=> BelongsToOpenGroup(changes.val[idx]))]_vars
    /\ []NeighboursDiffer

C9_Witness ==
    /\ html_output.assigned
    /\ \E k \in 1..Len(flushed) : Len(flushed[k]) >= 2

----------------------------------------------------------------------------
(* Properties of the run *)

\* the latest Saturday strictly before day t
LatestSaturdayBefore(t) == CHOOSE d \in (t - 7)..(t - 1) : Weekday(d) = 5

\* C3: whatever the weekday of the current date, last_saturday is the latest
\* Saturday strictly before today and last_sunday the Sunday six days earlier
C3_MostRecentCompletedWeek ==
    today # None =>
        /\ last_saturday = LatestSaturdayBefore(today)
        /\ last_sunday = last_saturday - 6

\* C4: when a required configuration value is missing, the run issues no
\* network request and ends with exit code 1
C4_ConfigCheckedAtStartup ==
    (\E k \in Keys : ~env[k]) =>
        /\ requests = <<>>
        /\ pc = "exited" => exit_code = 1

StageOrder == <<"token", "login", "fetch", "format", "mail">>

IsPrefix(s, t) == Len(s) <= Len(t) /\ \A i \in 1..Len(s) : s[i] = t[i]

\* the stage that issues a request of this kind
StageOf(kind) == IF kind = "recentchanges" THEN "fetch" ELSE kind

\* the one answer to a request of this kind that is not a failure
GoodAnswer(kind) ==
    CASE kind = "token" -> "ok"
      [] kind = "login" -> "Success"
      [] kind = "recentchanges" -> "ok"
      [] kind = "mail" -> "200"

MailConfigMissing ==
    ~env["MAILGUN_API_KEY"] \/ ~env["MAILGUN_DOMAIN"] \/ ~env["SENDER_EMAIL"]

\* C5: the stages are called in the order token, login, fetch, format, mail;
\* a failed request is the last one, no later stage is called and the run
\* ends with exit code 1, as it does when the mail settings are missing; exit
\* code 0 needs a mail POST answered 200 or an empty fetched list
C5_StrictSequenceAndExitCodes ==
    /\ IsPrefix(trace, StageOrder)
    /\ Len(answers) = Len(requests)
    /\ \A i \in 1..Len(answers) :
         answers[i] # GoodAnswer(requests[i].kind) =>
             /\ i = Len(answers)
             /\ Last(trace) = StageOf(requests[i].kind)
             /\ pc \in {"exited", "check_status"}
             /\ pc = "exited" => exit_code = 1
    /\ (trace # <<>> /\ Last(trace) = "mail" /\ MailConfigMissing) =>
             /\ Exited(1)
             /\ \A i \in 1..Len(requests) : requests[i].kind # "mail"
    /\ Exited(0) =>
         \/ /\ requests # <<>>
            /\ Last(requests).kind = "mail"
            /\ Last(answers) = "200"
         \/ /\ changes.assigned
            /\ changes.val = <<>>

C5_Witness ==
    /\ Exited(1)
    /\ trace = StageOrder
    /\ Last(requests).kind = "mail"
    /\ Last(answers) = "401"

\* C6: when get_recent_changes has returned the empty list, neither
\* format_changes nor send_email is called and the run ends with exit code 0
C6_EmptyMeansNoReport ==
    (changes.assigned /\ changes.val = <<>>) =>
        /\ \A i \in 1..Len(trace) : trace[i] \notin {"format", "mail"}
        /\ ~html_output.assigned
        /\ ~subject.assigned
        /\ pc \in {"check_empty", "exited"}
        /\ pc = "exited" => exit_code = 0

C6_Witness ==
    /\ Exited(0)
    /\ changes.assigned
    /\ changes.val = <<>>
    /\ Len(pages) >= 2

RcRequests ==
    LET IsRc(r) == r.kind = "recentchanges" IN SelectSeq(requests, IsRc)

\* C7: each recent-changes query carries the continuation of the page before
\* it (the first none); every page but the last came with a continuation and
\* the list is returned exactly on a page without one, as the concatenation
\* of all pages in request order; a failed page ends the run with exit code 1
\* and nothing is returned
C7_Pagination ==
    /\ Len(RcRequests) = Len(pages)
    /\ \A i \in 1..Len(pages) :
         RcRequests[i].cont = (IF i = 1 THEN None ELSE pages[i - 1].cont)
    /\ \A i \in 1..(Len(pages) - 1) : pages[i].kind = "ok" /\ pages[i].cont # None
    /\ changes.assigned <=>
         (pages # <<>> /\ Last(pages).kind = "ok" /\ Last(pages).cont = None)
    /\ pc = "check_empty" => changes.val = ConcatPages(pages)
    /\ (pages # <<>> /\ Last(pages).kind # "ok") => (Exited(1) /\ ~changes.assigned)

C7_Witness ==
    /\ pc = "check_empty"
    /\ Len(pages) >= 2
    /\ pages[1].cont # pages[2].cont
    /\ Len(changes.val) >= 2
    /\ changes.val[1] # changes.val[2]

\* C10: in a run that sends the mail, the report header shows the same date
\* range in the same order as the subject: window start first, window end second
C10_HeaderMatchesSubject ==
    (\E i \in 1..Len(requests) : requests[i].kind = "mail") =>
        /\ html_output.val[1].start_str = subject.start_str
        /\ html_output.val[1].end_str = subject.end_str

====
